---------------------------- MODULE Spec2Model ----------------------------
(***************************************************************************)
(* Model of patch.py: the Konami4 -> Konami5 (SCC) ROM patcher.            *)
(*                                                                         *)
(* The ROM buffer is 0x40000 bytes long, so it is kept sparsely: a record  *)
(* [len, mem] where mem maps the indices the model tracks to their bytes   *)
(* and every other index below len holds the padding byte 0x20 (the byte   *)
(* line 86 pads the image with).  0x20 is the first byte of none of the    *)
(* scanned patterns, so a scan loop has work to do only at the offsets     *)
(* that are in DOMAIN mem; the loops below visit exactly those offsets of  *)
(* their range, in ascending order, as the for loops of the source do.     *)
(*                                                                         *)
(* Two specifications:                                                     *)
(*   Spec     one run of the script, line 81 to line 150;                  *)
(*   SpecOps  the four functions applied to buffers drawn from bounded     *)
(*            sets (small dense buffers and 0x40000-byte buffers with a    *)
(*            window of non-padding bytes at a boundary of interest).      *)
(***************************************************************************)
EXTENDS Integers, Sequences, FiniteSets, TLC

VARIABLES
    rom,          \* the ROM buffer
    scc_rom,      \* the secondary image, once loaded
    pc,           \* the line the run is at ("ops" under SpecOps)
    err,          \* the exception that ended the run or the call, or "none"
    arg,          \* detail of the last step: where the run was ended, the
                  \* fragment just merged, the arguments of offset_address
    disk,         \* the input files: vkiller.rom, nemesis3.rom and their digests
    files,        \* the output files written so far
    frags,        \* the vkiller_patch*.bin files in the working directory
    patches,      \* the fragments the merge loop has still to visit
    exit_status,  \* exit status of sjasmplus, "not_run" before it has run
    prev,         \* history: the buffer before the last step
    orig,         \* history: the buffer as loaded
    ops           \* history: the functions applied so far (SpecOps)

vars == <<rom, scc_rom, pc, err, arg, disk, files, frags, patches, exit_status,
          prev, orig, ops>>

(***************************************************************************)
(* Bounds of the model.                                                    *)
(***************************************************************************)
\* number of consecutive non-padding bytes in an input buffer
WinSize == 4
\* how many times in a row patch_mapper is applied to one buffer
MaxRuns == 2

(***************************************************************************)
(* Constants of the program (decimal; the source writes them in hex).      *)
(***************************************************************************)
\* b' ', the padding byte of line 86
Fill == 32
\* range(0x20000, 0x213f0) of patch_music_channel_locations
SCAN_START == 131072
SCAN_END == 136176
\* range(0x20000, len(rom) - 4) of patch_bios_psg_calls
CALLS_START == 131072
\* [0x20daa, 0x23340, 0x20beb]
PATCH_IGNORE_LIST == {134570, 144192, 134123}
\* +0x0e00
CHANNEL_OFFSET == 3584
\* 0x10, the mapper register delta
MAPPER_DELTA == 16
\* scc_rom[0x14000:0x1a000]
SLICE_START == 81920
SLICE_END == 106496
\* b' ' * 0x1a000
PAD_LEN == 106496
\* vkiller.rom is 16 pages of 8 KiB: the appended slice is page 0x10 of the
\* page map of save_kss_file, and the scan range starts on it
PRIMARY_LEN == 16 * 8 * 1024
\* len(rom) after line 86
ROM_LEN == PRIMARY_LEN + (SLICE_END - SLICE_START) + PAD_LEN

(***************************************************************************)
(* Bytes and the sparse buffer.                                            *)
(***************************************************************************)
Min(S) == CHOOSE x \in S : \A y \in S : x <= y

\* b & 0xfc
And252(b) == b - (b % 4)

\* rom[i] for 0 <= i < len(rom)
Get(r, i) == IF i \in DOMAIN r.mem THEN r.mem[i] ELSE Fill

\* rom[i] = v for 0 <= i < len(rom), 0 <= v <= 255
Put(r, i, v) ==
    [r EXCEPT !.mem = [j \in (DOMAIN r.mem) \cup {i} |->
                          IF j = i THEN v ELSE r.mem[j]]]

Ok(r) == [rom |-> r, err |-> "none"]
Raise(r, e) == [rom |-> r, err |-> e]

(***************************************************************************)
(* patch_mapper (lines 25-31).                                             *)
(***************************************************************************)
\* the mutation: the scan stops one offset early
MapperEndShort(r) == r.len - 3

\* range(len(rom) - 2): the first offset not scanned
MapperEnd(r) == r.len - 2

\* the mutation: any operand from 0x60 up is taken for a Konami4 register
MapperMatchLoose(r, o) ==
    /\ Get(r, o) = 50
    /\ Get(r, o + 1) = 0
    /\ Get(r, o + 2) >= 96 /\ Get(r, o + 2) <= 160

\* rom[offset] == 0x32 and rom[offset+1] == 0x00 and rom[offset+2] in [0x60, 0x80, 0xa0]
MapperMatch(r, o) ==
    /\ Get(r, o) = 50
    /\ Get(r, o + 1) = 0
    /\ Get(r, o + 2) \in {96, 128, 160}

RECURSIVE MapperFrom(_, _)
MapperFrom(r, from) ==
    LET todo == {o \in DOMAIN r.mem : o >= from /\ o < MapperEnd(r)}
    IN  IF todo = {} THEN r
        ELSE LET o == Min(todo)
             IN  IF MapperMatch(r, o)
                 THEN MapperFrom(Put(r, o + 2, Get(r, o + 2) + MAPPER_DELTA), o + 1)
                 ELSE MapperFrom(r, o + 1)

patch_mapper(r) == Ok(MapperFrom(r, 0))

(***************************************************************************)
(* offset_address (lines 38-43).  A bytearray item must be in 0..255: the  *)
(* store of addr >> 8 raises ValueError otherwise, after the low byte has  *)
(* been stored.                                                            *)
(***************************************************************************)
offset_address(r, index, offset) ==
    IF index + 1 >= r.len THEN Raise(r, "IndexError")
    ELSE LET addr == Get(r, index) + Get(r, index + 1) * 256 + offset
             lo   == addr % 256
             hi   == addr \div 256
             r1   == Put(r, index, lo)
         IN  IF hi \in 0..255 THEN Ok(Put(r1, index + 1, hi))
             ELSE Raise(r1, "ValueError")

(***************************************************************************)
(* patch_music_channel_locations (lines 46-57).                            *)
(***************************************************************************)
\* offset in PATCH_IGNORE_LIST
Ignored(o) == o \in PATCH_IGNORE_LIST

\* the first condition reads past the end of the buffer (and short-circuits)
IndexedLoadOOB(r, o) ==
    /\ Get(r, o) = 221
    /\ \/ o + 1 >= r.len
       \/ Get(r, o + 1) = 33 /\ o + 3 >= r.len

\* rom[offset] == 0xdd and rom[offset+1] == 0x21 and (rom[offset+3] & 0xfc) == 0xe0
IndexedLoad(r, o) ==
    /\ Get(r, o) = 221
    /\ Get(r, o + 1) = 33
    /\ And252(Get(r, o + 3)) = 224

ImmediateLoadOOB(r, o) ==
    /\ Get(r, o) \in {1, 17, 33, 50, 58, 34, 42}
    /\ o + 2 >= r.len

\* the mutation: the operand test masks with 0xe0 instead of 0xfc
ImmediateLoadWide(r, o) ==
    /\ Get(r, o) \in {1, 17, 33, 50, 58, 34, 42}
    /\ Get(r, o + 2) - (Get(r, o + 2) % 32) = 224

\* rom[offset] in [0x01, 0x11, 0x21, 0x32, 0x3a, 0x22, 0x2a] and (rom[offset+2] & 0xfc) == 0xe0
ImmediateLoad(r, o) ==
    /\ Get(r, o) \in {1, 17, 33, 50, 58, 34, 42}
    /\ And252(Get(r, o + 2)) = 224

\* the body of the loop at one offset that is not ignored (lines 51-57)
ChannelStep(r, o) ==
    IF IndexedLoadOOB(r, o) THEN Raise(r, "IndexError")
    ELSE LET a == IF IndexedLoad(r, o)
                  THEN offset_address(r, o + 2, CHANNEL_OFFSET)
                  ELSE Ok(r)
         IN  IF a.err # "none" THEN a
             ELSE IF ImmediateLoadOOB(a.rom, o) THEN Raise(a.rom, "IndexError")
             ELSE IF ImmediateLoad(a.rom, o)
                  THEN offset_address(a.rom, o + 1, CHANNEL_OFFSET)
                  ELSE a

RECURSIVE ChannelFrom(_, _)
ChannelFrom(r, from) ==
    LET todo == {o \in DOMAIN r.mem :
                    /\ o >= from /\ o < SCAN_END /\ o < r.len
                    /\ ~Ignored(o)}
    IN  IF todo = {}
        THEN \* rom[offset] of the first scanned offset >= len(rom) raises
             \* (the last offset of the range is not in the ignore list)
             IF r.len < SCAN_END THEN Raise(r, "IndexError") ELSE Ok(r)
        ELSE LET o == Min(todo)
                 s == ChannelStep(r, o)
             IN  IF s.err # "none" THEN s ELSE ChannelFrom(s.rom, o + 1)

patch_music_channel_locations(r) == ChannelFrom(r, SCAN_START)

(***************************************************************************)
(* patch_bios_psg_calls (lines 60-67).                                     *)
(***************************************************************************)
\* range(0x20000, len(rom) - 4): the first offset not scanned
CallsEnd(r) == r.len - 4

\* rom[offset] == 0xcd and rom[offset+1] == 0x93 and rom[offset+2] == 0x00
CallMatch(r, o) ==
    /\ Get(r, o) = 205
    /\ Get(r, o + 1) = 147
    /\ Get(r, o + 2) = 0

RECURSIVE CallsFrom(_, _)
CallsFrom(r, from) ==
    LET todo == {o \in DOMAIN r.mem : o >= from /\ o < CallsEnd(r)}
    IN  IF todo = {} THEN r
        ELSE LET o == Min(todo)
             IN  IF CallMatch(r, o)
                 THEN CallsFrom(Put(Put(r, o + 1, 232), o + 2, 126), o + 1)
                 ELSE CallsFrom(r, o + 1)

patch_bios_psg_calls(r) == Ok(CallsFrom(r, CALLS_START))

(***************************************************************************)
(* SpecOps: the functions applied to bounded inputs.                       *)
(***************************************************************************)
\* the bytes the inputs are drawn from, one family per pattern set
MapperBytes == {50, 0, 96, 128, 160}
ChannelBytes == {221, 33, 52, 224, 227}
CallBytes == {205, 147, 0}

\* where the non-padding window of a 0x40000-byte input lies
WindowBases ==
    { SCAN_START - 1,          \* across the start of the scan range
      134570,                  \* at the ignored offset 0x20daa
      134123 - 2,              \* two before the ignored offset 0x20beb
      SCAN_END - 1,            \* across the end of the scan range
      ROM_LEN - WinSize }      \* the last bytes of the buffer

Window(base, n, B) == [base..(base + n - 1) -> B]

InputBuffers ==
    LET Fam == {MapperBytes, ChannelBytes, CallBytes}
        Dense(n) == {[len |-> n, mem |-> m] : m \in UNION {Window(0, n, B) : B \in Fam}}
        Sparse(b) == {[len |-> ROM_LEN, mem |-> m] :
                         m \in UNION {Window(b, WinSize, B) : B \in Fam}}
    IN  UNION {Dense(n) : n \in 3..WinSize} \cup UNION {Sparse(b) : b \in WindowBases}

\* the deltas offset_address is tried with: the one in use, the one left in
\* the comment of line 34, and one that carries out of 16 bits
Deltas == {CHANNEL_OFFSET, 0 - 49152, 8192}

Empty == [len |-> 0, mem |-> <<>>]

InitOps ==
    /\ rom \in InputBuffers
    /\ prev = rom
    /\ orig = rom
    /\ ops = <<>>
    /\ err = "none"
    /\ arg = <<>>
    /\ pc = "ops"
    /\ scc_rom = Empty
    /\ disk = <<>>
    /\ files = {}
    /\ frags = {}
    /\ patches = {}
    /\ exit_status = "not_run"

Apply(name, res, a) ==
    /\ prev' = rom
    /\ rom' = res.rom
    /\ err' = res.err
    /\ ops' = Append(ops, name)
    /\ arg' = a
    /\ UNCHANGED <<orig, pc, scc_rom, disk, files, frags, patches, exit_status>>

DoPatchMapper ==
    /\ pc = "ops" /\ ops = <<>>
    /\ Apply("patch_mapper", patch_mapper(rom), <<>>)

\* patch_mapper again on the buffer it has just patched, without reloading
RerunPatchMapper ==
    /\ pc = "ops" /\ ops # <<>> /\ Len(ops) < MaxRuns
    /\ ops[Len(ops)] = "patch_mapper" /\ err = "none"
    /\ Apply("patch_mapper", patch_mapper(rom), <<>>)

DoPatchChannels ==
    /\ pc = "ops" /\ ops = <<>>
    /\ Apply("patch_music_channel_locations", patch_music_channel_locations(rom), <<>>)

DoPatchCalls ==
    /\ pc = "ops" /\ ops = <<>>
    /\ Apply("patch_bios_psg_calls", patch_bios_psg_calls(rom), <<>>)

DoOffsetAddress ==
    /\ pc = "ops" /\ ops = <<>>
    /\ \E index \in {Min(DOMAIN rom.mem), Min(DOMAIN rom.mem) + 1}, d \in Deltas :
          Apply("offset_address", offset_address(rom, index, d), <<index, d>>)

NextOps ==
    \/ DoPatchMapper
    \/ RerunPatchMapper
    \/ DoPatchChannels
    \/ DoPatchCalls
    \/ DoOffsetAddress

SpecOps == InitOps /\ [][NextOps]_vars


(***************************************************************************)
(* Spec: one run of the script (lines 81-150).                             *)
(***************************************************************************)
\* how many fragment files one run of the assembler leaves behind at most
MaxFrags == 2

\* the digests of lines 83 and 84, and the digest of any other content
PRIMARY_MD5 == "66da3107684286d1eba45efb8eae9113"
SLICE_MD5 == "61c33112a5a2cefd1df81dc1434aa42a"
OTHER_MD5 == "d41d8cd98f00b204e9800998ecf8427e"

\* nemesis3.rom is 32 pages of 8 KiB
SECONDARY_LEN == 32 * 8 * 1024
\* rom[0x21484], asserted to be 0x0a on line 90
KICK_AT == 136324
\* 0x1a000, where compile() is told to put the music
MUSIC_AT == 106496

\* the mutation: the comparison is dropped (as python -O drops the assert)
check_hash_off(h, expected_hash) == TRUE

\* check_hash (lines 19-22), on the digest h = md5(data).hexdigest()
check_hash(h, expected_hash) == h = expected_hash

\* r[a:b]; a slice is cut to the length of the buffer
Slice(r, a, b) ==
    LET lo == IF a < r.len THEN a ELSE r.len
        hi == IF b < r.len THEN b ELSE r.len
    IN  [len |-> IF hi > lo THEN hi - lo ELSE 0,
         mem |-> [i \in {j - lo : j \in {k \in DOMAIN r.mem : k >= lo /\ k < hi}} |->
                     r.mem[i + lo]]]

\* r1 + r2
Concat(r1, r2) ==
    [len |-> r1.len + r2.len,
     mem |-> [i \in (DOMAIN r1.mem) \cup {j + r1.len : j \in DOMAIN r2.mem} |->
                 IF i \in DOMAIN r1.mem THEN r1.mem[i] ELSE r2.mem[i - r1.len]]]

\* r + b' ' * n
Pad(r, n) == [r EXCEPT !.len = r.len + n]

\* rom[i] = v for each <<i, v>> of stores, in order; IndexError past the end
RECURSIVE StoreAll(_, _)
StoreAll(r, stores) ==
    IF stores = <<>> THEN Ok(r)
    ELSE LET i == Head(stores)[1]
             v == Head(stores)[2]
         IN  IF i >= r.len THEN Raise(r, "IndexError")
             ELSE StoreAll(Put(r, i, v), Tail(stores))

\* lines 93-114: the drum fixes and the new stack pointer
FixedStores ==
    << <<136325, 144>>, <<136326, 0>>, <<136327, 144>>, <<136328, 0>>,
       <<136160, 192>>, <<136161, 0>>, <<136196, 160>>, <<136197, 0>>,
       <<120, 250>>, <<119, 240>> >>

\* file names are sequences of characters
Prefix == <<"v", "k", "i", "l", "l", "e", "r", "_", "p", "a", "t", "c", "h">>
Suffix == <<".", "b", "i", "n">>
PatchName(digits) == Prefix \o digits \o Suffix

\* s[a:b] of a string
StrSlice(s, a, b) == SubSeq(s, a + 1, IF b < Len(s) THEN b ELSE Len(s))

\* the mutation: one character more is taken for the offset
OffsetFieldWide(name) == StrSlice(name, 13, 19)

\* patch_filename[13:18] (line 142)
OffsetField(name) == StrSlice(name, 13, 18)

HexDigits == <<"0", "1", "2", "3", "4", "5", "6", "7", "8", "9",
               "a", "b", "c", "d", "e", "f">>
DigitValue(c) == (CHOOSE k \in 1..16 : HexDigits[k] = c) - 1

\* int(s, 16) raises ValueError.  (Python also takes a sign, surrounding
\* blanks, underscores and a 0x prefix; no name of the model has them.)
HexInvalid(s) == s = <<>> \/ \E k \in 1..Len(s) : \A d \in 1..16 : HexDigits[d] # s[k]

\* int(s, 16) of a string of lower-case hexadecimal digits
RECURSIVE HexValue(_)
HexValue(s) ==
    IF s = <<>> THEN 0
    ELSE 16 * HexValue(SubSeq(s, 1, Len(s) - 1)) + DigitValue(s[Len(s)])

\* lines 142-145 for one fragment file
merge_fragment(r, f) ==
    IF HexInvalid(OffsetField(f.name)) THEN Raise(r, "ValueError")
    ELSE LET offset == HexValue(OffsetField(f.name))
         IN  StoreAll(r, [i \in 1..Len(f.data) |-> <<offset + i - 1, f.data[i]>>])

\* the fragment files sjasmplus may leave behind
FragmentFiles ==
    { [name |-> PatchName(<<"1", "a", "3", "f", "0">>), data |-> <<1, 2>>],
      [name |-> PatchName(<<"0", "1", "a", "3", "f", "0">>), data |-> <<3, 4>>],
      [name |-> PatchName(<<"3", "f", "f", "f", "f">>), data |-> <<5, 6>>],
      [name |-> PatchName(<<>>), data |-> <<7>>] }

\* what compile() may write at 0x1a000
MusicChoices == { <<0, 0>>, <<50, 0, 96>> }

\* contents of vkiller.rom and of nemesis3.rom the run may meet: a mapper
\* write in the primary image, a few player bytes in the slice and the kick
\* byte of line 90
PrimaryImages ==
    {[len |-> PRIMARY_LEN, mem |-> m] : m \in Window(16384, 3, {50, 0, 96})}
SecondaryImages ==
    {[len |-> SECONDARY_LEN,
      mem |-> [i \in (DOMAIN m) \cup {SLICE_START + KICK_AT - PRIMARY_LEN} |->
                  IF i \in DOMAIN m THEN m[i] ELSE k]] :
        m \in Window(SLICE_START + 8, WinSize, {33, 224}), k \in {10, 0}}

Init ==
    /\ disk \in {[primary |-> p, primary_md5 |-> pm, secondary |-> q, slice_md5 |-> qm] :
                    p \in PrimaryImages, pm \in {PRIMARY_MD5, OTHER_MD5},
                    q \in SecondaryImages, qm \in {SLICE_MD5, OTHER_MD5}}
    /\ frags \in {{}, {[name |-> PatchName(<<"0", "0", "0", "7", "7">>), data |-> <<9>>]}}
    /\ rom = Empty
    /\ scc_rom = Empty
    /\ pc = "load_rom"
    /\ err = "none"
    /\ arg = <<>>
    /\ files = {}
    /\ patches = {}
    /\ exit_status = "not_run"
    /\ prev = Empty
    /\ orig = Empty
    /\ ops = <<>>

\* an uncaught exception ends the run
Abort(e) ==
    /\ pc' = "raised"
    /\ err' = e
    /\ arg' = <<pc>>

Goto(next) ==
    /\ pc' = next
    /\ arg' = <<>>
    /\ UNCHANGED err

\* line 81
LoadRom ==
    /\ pc = "load_rom"
    /\ prev' = rom
    /\ \/ /\ rom' = disk.primary
          /\ orig' = disk.primary
          /\ Goto("load_scc")
       \/ /\ Abort("FileNotFoundError")
          /\ UNCHANGED <<rom, orig>>
    /\ UNCHANGED <<scc_rom, disk, files, frags, patches, exit_status, ops>>

\* line 82
LoadScc ==
    /\ pc = "load_scc"
    /\ prev' = rom
    /\ \/ /\ scc_rom' = disk.secondary
          /\ Goto("check_rom")
       \/ /\ Abort("FileNotFoundError")
          /\ UNCHANGED scc_rom
    /\ UNCHANGED <<rom, orig, disk, files, frags, patches, exit_status, ops>>

\* line 83
CheckRom ==
    /\ pc = "check_rom"
    /\ prev' = rom
    /\ IF check_hash(disk.primary_md5, PRIMARY_MD5)
       THEN Goto("check_scc")
       ELSE Abort("AssertionError")
    /\ UNCHANGED <<rom, scc_rom, orig, disk, files, frags, patches, exit_status, ops>>

\* line 84
CheckScc ==
    /\ pc = "check_scc"
    /\ prev' = rom
    /\ IF check_hash(disk.slice_md5, SLICE_MD5)
       THEN Goto("compose")
       ELSE Abort("AssertionError")
    /\ UNCHANGED <<rom, scc_rom, orig, disk, files, frags, patches, exit_status, ops>>

\* line 86
Compose ==
    /\ pc = "compose"
    /\ prev' = rom
    /\ rom' = Pad(Concat(rom, Slice(scc_rom, SLICE_START, SLICE_END)), PAD_LEN)
    /\ Goto("drum_fix")
    /\ UNCHANGED <<scc_rom, orig, disk, files, frags, patches, exit_status, ops>>

\* lines 90-114
DrumFix ==
    /\ pc = "drum_fix"
    /\ prev' = rom
    /\ IF KICK_AT >= rom.len
       THEN Abort("IndexError") /\ UNCHANGED rom
       ELSE IF Get(rom, KICK_AT) # 10
       THEN Abort("AssertionError") /\ UNCHANGED rom
       ELSE LET res == StoreAll(rom, FixedStores)
            IN  /\ rom' = res.rom
                /\ IF res.err = "none" THEN Goto("compile") ELSE Abort(res.err)
    /\ UNCHANGED <<scc_rom, orig, disk, files, frags, patches, exit_status, ops>>

\* line 121: the music compiler of konami_scc, which writes into the buffer
\* or fails
Compile ==
    /\ pc = "compile"
    /\ prev' = rom
    /\ \/ \E music \in MusicChoices :
             LET res == StoreAll(rom, [i \in 1..Len(music) |-> <<MUSIC_AT + i - 1, music[i]>>])
             IN  /\ rom' = res.rom
                 /\ IF res.err = "none" THEN Goto("save_kss") ELSE Abort(res.err)
       \/ /\ Abort("CompileError")
          /\ UNCHANGED rom
    /\ UNCHANGED <<scc_rom, orig, disk, files, frags, patches, exit_status, ops>>

\* save_kss_file (lines 70-78), called on line 123: the header and six pages
\* of the buffer as it is now
SaveKss ==
    /\ pc = "save_kss"
    /\ prev' = rom
    /\ \/ /\ files' = files \cup {[name |-> "vkiller_scc.kss",
                                   pages |-> <<16, 0, 0, 17, 18, 19>>,
                                   image |-> rom]}
          /\ Goto("patch_mapper")
       \/ /\ Abort("FileNotFoundError")
          /\ UNCHANGED files
    /\ UNCHANGED <<rom, scc_rom, orig, disk, frags, patches, exit_status, ops>>

Pass(res, next) ==
    /\ prev' = rom
    /\ rom' = res.rom
    /\ IF res.err = "none" THEN Goto(next) ELSE Abort(res.err)
    /\ UNCHANGED <<scc_rom, orig, disk, files, frags, patches, exit_status, ops>>

\* line 125
RunPatchMapper == pc = "patch_mapper" /\ Pass(patch_mapper(rom), "patch_channels")

\* line 126
RunPatchChannels ==
    pc = "patch_channels" /\ Pass(patch_music_channel_locations(rom), "patch_calls")

\* line 127
RunPatchCalls == pc = "patch_calls" /\ Pass(patch_bios_psg_calls(rom), "remove_old")

\* lines 129-130
RemoveOld ==
    /\ pc = "remove_old"
    /\ prev' = rom
    /\ frags' = {}
    /\ Goto("assemble")
    /\ UNCHANGED <<rom, scc_rom, orig, disk, files, patches, exit_status, ops>>

\* the mutation: a failing assembler is not noticed
AssemblerFailedNever(status) == FALSE

\* subprocess.check_output raises CalledProcessError
AssemblerFailed(status) == status # 0

\* lines 133-137
Assemble ==
    /\ pc = "assemble"
    /\ prev' = rom
    /\ \E status \in {0, 1} :
          /\ exit_status' = status
          /\ IF AssemblerFailed(status)
             THEN /\ pc' = "exit"
                  /\ arg' = <<0 - 1>>
                  /\ UNCHANGED <<err, frags>>
             ELSE /\ \E made \in SUBSET FragmentFiles :
                        /\ Cardinality(made) <= MaxFrags
                        /\ frags' = made
                  /\ Goto("glob")
    /\ UNCHANGED <<rom, scc_rom, orig, disk, files, patches, ops>>

\* line 140
Glob ==
    /\ pc = "glob"
    /\ prev' = rom
    /\ patches' = frags
    /\ Goto("merge")
    /\ UNCHANGED <<rom, scc_rom, orig, disk, files, frags, exit_status, ops>>

\* lines 141-145, one fragment; glob gives the files in no particular order
MergeFragment ==
    /\ pc = "merge"
    /\ prev' = rom
    /\ \E f \in patches :
          LET res == merge_fragment(rom, f)
          IN  /\ rom' = res.rom
              /\ patches' = patches \ {f}
              /\ IF res.err = "none"
                 THEN pc' = "merge" /\ arg' = <<f>> /\ UNCHANGED err
                 ELSE pc' = "raised" /\ arg' = <<"merge", f>> /\ err' = res.err
    /\ UNCHANGED <<scc_rom, orig, disk, files, frags, exit_status, ops>>

\* lines 147-150
WriteRom ==
    /\ pc = "merge" /\ patches = {}
    /\ prev' = rom
    /\ files' = files \cup {[name |-> "vkilscc.rom", image |-> rom]}
    /\ Goto("done")
    /\ UNCHANGED <<rom, scc_rom, orig, disk, frags, patches, exit_status, ops>>

Next ==
    \/ LoadRom
    \/ LoadScc
    \/ CheckRom
    \/ CheckScc
    \/ Compose
    \/ DrumFix
    \/ Compile
    \/ SaveKss
    \/ RunPatchMapper
    \/ RunPatchChannels
    \/ RunPatchCalls
    \/ RemoveOld
    \/ Assemble
    \/ Glob
    \/ MergeFragment
    \/ WriteRom

Spec == Init /\ [][Next]_vars

(***************************************************************************)
(* Properties of the functions (checked under SpecOps).  The patterns are  *)
(* restated here from the instruction encodings, independently of the      *)
(* conditions of the code above.                                           *)
(***************************************************************************)
LastOp == IF ops = <<>> THEN "none" ELSE ops[Len(ops)]

\* every index at which prev and rom can differ or hold a non-padding byte
Tracked == (DOMAIN prev.mem) \cup (DOMAIN rom.mem)

Same(i) == Get(rom, i) = Get(prev, i)

\* the little-endian 16-bit value at i, i + 1
Word(r, i) == Get(r, i) + 256 * Get(r, i + 1)

\* LD (nn),A with nn = 0x6000, 0x8000 or 0xa000, wholly inside the buffer
IsMapperSelect(r, o) ==
    /\ o >= 0 /\ o + 2 < r.len
    /\ Get(r, o) = 50 /\ Get(r, o + 1) = 0 /\ Get(r, o + 2) \in {96, 128, 160}

\* LD IX,nn with 0xe000 <= nn < 0xe400, wholly inside the buffer
IsIndexedLoad(r, o) ==
    /\ o >= 0 /\ o + 3 < r.len
    /\ Get(r, o) = 221 /\ Get(r, o + 1) = 33
    /\ Get(r, o + 3) \in 224..227

\* LD BC/DE/HL,nn, LD (nn),A, LD A,(nn), LD (nn),HL, LD HL,(nn) with 0xe000 <= nn < 0xe400
IsImmediateLoad(r, o) ==
    /\ o >= 0 /\ o + 2 < r.len
    /\ Get(r, o) \in {1, 17, 33, 50, 58, 34, 42}
    /\ Get(r, o + 2) \in 224..227

\* CALL 0x0093, wholly inside the buffer
IsBiosCall(r, o) ==
    /\ o >= 0 /\ o + 2 < r.len
    /\ Get(r, o) = 205 /\ Get(r, o + 1) = 147 /\ Get(r, o + 2) = 0

InScan(o) == o >= SCAN_START /\ o < SCAN_END

\* C2: after patch_mapper every mapper-select match of the buffer it was given
\* (a match in the last three bytes included) has its operand byte increased by
\* 0x10, once, and every other byte is unchanged; [0x32, 0x00, 0x60] becomes
\* [0x32, 0x00, 0x70].
C2_MapperPatchesEveryMatchOnce ==
    LastOp = "patch_mapper" =>
        /\ err = "none"
        /\ rom.len = prev.len
        /\ \A o \in DOMAIN prev.mem :
              IsMapperSelect(prev, o) => Get(rom, o + 2) = Get(prev, o + 2) + 16
        /\ \A i \in Tracked :
              (~(i >= 2 /\ IsMapperSelect(prev, i - 2))) => Same(i)
        /\ (prev.len = 3 /\ Get(prev, 0) = 50 /\ Get(prev, 1) = 0 /\ Get(prev, 2) = 96) =>
              (Get(rom, 0) = 50 /\ Get(rom, 1) = 0 /\ Get(rom, 2) = 112)

\* a match in the last three bytes of a buffer has been patched
C2_Witness ==
    /\ LastOp = "patch_mapper" /\ Len(ops) = 1
    /\ IsMapperSelect(prev, prev.len - 3)
    /\ Get(rom, rom.len - 1) = Get(prev, prev.len - 1) + 16
    /\ prev.len = ROM_LEN

C4_IgnoredOperandUnchanged ==
    LastOp = "patch_music_channel_locations" =>
        \A o \in PATCH_IGNORE_LIST :
            /\ IsIndexedLoad(prev, o) => (Same(o + 2) /\ Same(o + 3))
            /\ IsImmediateLoad(prev, o) => (Same(o + 1) /\ Same(o + 2))

\* C5 (as stated): after patch_bios_psg_calls every CALL 0x0093 at or after the
\* scan start that lies wholly inside the buffer (the last three bytes
\* included) calls 0x7ee8, and every other byte is unchanged.
C5_EveryBiosCallRedirected ==
    LastOp = "patch_bios_psg_calls" =>
        /\ \A o \in DOMAIN prev.mem :
              (o >= CALLS_START /\ IsBiosCall(prev, o)) =>
                  (Get(rom, o) = 205 /\ Get(rom, o + 1) = 232 /\ Get(rom, o + 2) = 126)
        /\ \A i \in Tracked :
              (~\E o \in {i - 1, i - 2} : o >= CALLS_START /\ IsBiosCall(prev, o)) => Same(i)

\* C7 (as stated): offset_address on an operand inside the buffer completes
\* and leaves (v + d) mod 65536, low byte first, and changes no other byte.
C7_OffsetAddressWraps ==
    (LastOp = "offset_address" /\ arg[1] + 1 < prev.len) =>
        /\ err = "none"
        /\ Word(rom, arg[1]) = (Word(prev, arg[1]) + arg[2]) % 65536
        /\ \A i \in Tracked : i \notin {arg[1], arg[1] + 1} => Same(i)

\* C9 (as stated): a second patch_mapper on a buffer that held a match changes
\* the buffer again, leaving the operand at b + 0x20.
C9_SecondRunDoubleApplies ==
    (LastOp = "patch_mapper" /\ Len(ops) = 2) =>
        \A o \in DOMAIN orig.mem :
            IsMapperSelect(orig, o) =>
                /\ Get(rom, o + 2) = Get(orig, o + 2) + 32
                /\ Get(rom, o + 2) # Get(prev, o + 2)

\* C9 (amended): a further patch_mapper on the buffer a first run produced
\* changes no byte; every operand matched in the original buffer stays at
\* b + 0x10.
C9_SecondRunChangesNothing ==
    (LastOp = "patch_mapper" /\ Len(ops) >= 2) =>
        /\ err = "none"
        /\ \A i \in Tracked : Same(i)
        /\ \A o \in DOMAIN orig.mem :
              IsMapperSelect(orig, o) => Get(rom, o + 2) = Get(orig, o + 2) + 16

\* patch_mapper has run twice on a buffer that held a match
C9_Witness ==
    /\ LastOp = "patch_mapper" /\ Len(ops) = 2
    /\ \E o \in DOMAIN orig.mem :
          IsMapperSelect(orig, o) /\ Get(orig, o + 2) = 96 /\ Get(rom, o + 2) = 112

\* C10 (as stated, for a buffer of the run's length): the pass changes no byte
\* below the start or at or above the end of the scan range, and raises no
\* IndexError.
C10_NothingOutsideScanRange ==
    (LastOp = "patch_music_channel_locations" /\ prev.len = ROM_LEN) =>
        /\ err # "IndexError"
        /\ \A i \in Tracked : ~InScan(i) => Same(i)

(***************************************************************************)
(* Properties of the run (checked under Spec).                             *)
(***************************************************************************)
Written(name) == \E f \in files : f.name = name

BeforeCompose == {"load_rom", "load_scc", "check_rom", "check_scc"}

RaisedAt(where) == pc = "raised" /\ arg[1] \in where

SixDigitName == PatchName(<<"0", "1", "a", "3", "f", "0">>)
FiveDigitName == PatchName(<<"1", "a", "3", "f", "0">>)

\* the fragment f has just been copied to the buffer starting at off, and
\* nothing else has changed
CopiedAt(f, off) ==
    /\ \A i \in 1..Len(f.data) : Get(rom, off + i - 1) = f.data[i]
    /\ \A j \in Tracked : (j < off \/ j >= off + Len(f.data)) => Same(j)

\* C1: no byte of the buffer is changed and no file is written before both
\* digest checks have passed; a digest that differs ends the run at its check
\* with the buffer as loaded.
C1_NoMutationBeforeDigests ==
    /\ pc \in BeforeCompose => (files = {} /\ rom \in {Empty, disk.primary})
    /\ disk.primary_md5 # PRIMARY_MD5 =>
          /\ pc \in {"load_rom", "load_scc", "check_rom", "raised"}
          /\ pc = "raised" => arg[1] \in {"load_rom", "load_scc", "check_rom"}
    /\ disk.slice_md5 # SLICE_MD5 =>
          /\ pc \in BeforeCompose \cup {"raised"}
          /\ pc = "raised" => arg[1] \in BeforeCompose
    /\ RaisedAt(BeforeCompose) => (files = {} /\ rom \in {Empty, disk.primary})
    /\ RaisedAt({"check_rom", "check_scc"}) => (err = "AssertionError" /\ rom = disk.primary)

\* the run has ended at the second digest check, the first one having passed
C1_Witness ==
    /\ RaisedAt({"check_scc"})
    /\ disk.primary_md5 = PRIMARY_MD5 /\ disk.slice_md5 # SLICE_MD5
    /\ rom = disk.primary /\ files = {}

\* C6 (as stated): a fragment whose name embeds 01a3f0 after vkiller_patch is
\* copied to the buffer starting at 0x1a3f0, and nothing else changes.
C6_SixDigitNameLandsAt1a3f0 ==
    \A f \in FragmentFiles :
        (pc = "merge" /\ arg = <<f>> /\ f.name = SixDigitName) => CopiedAt(f, 107504)

\* C6 (amended): the destination is the value of the five characters that
\* follow vkiller_patch: vkiller_patch1a3f0.bin is copied, in order, to
\* 0x1a3f0 and up and nothing else changes; a name that embeds 01a3f0 is
\* copied to 0x01a3f.
C6_FragmentLandsAtFiveDigitOffset ==
    \A f \in FragmentFiles :
        (pc = "merge" /\ arg = <<f>>) =>
            /\ f.name \in {FiveDigitName, SixDigitName}
            /\ f.name = FiveDigitName => CopiedAt(f, 107504)
            /\ f.name = SixDigitName => CopiedAt(f, 6719)

\* vkiller_patch1a3f0.bin has just been merged
C6_Witness ==
    /\ pc = "merge"
    /\ arg = <<[name |-> FiveDigitName, data |-> <<1, 2>>]>>
    /\ Get(rom, 107504) = 1 /\ Get(rom, 107505) = 2
    /\ Get(prev, 107504) # 1

\* C8 (as stated): a run that has ended without completing has written no
\* output file at all.
C8_NoOutputUnlessComplete ==
    pc \in {"raised", "exit"} => files = {}

\* C8 (amended): the output image is written only by a run that has completed
\* every step; the playback container is written right after the music has
\* been compiled in, so a run ended by the assembler or inside the fragment
\* merge has written the container and not the image, and a run ended before
\* that has written nothing.
C8_ImageOnlyWhenComplete ==
    /\ Written("vkilscc.rom") =>
          (pc = "done" /\ exit_status = 0 /\ patches = {} /\ Written("vkiller_scc.kss"))
    /\ pc = "done" => Written("vkilscc.rom")
    /\ pc = "exit" =>
          (exit_status # 0 /\ Written("vkiller_scc.kss") /\ ~Written("vkilscc.rom"))
    /\ RaisedAt({"merge"}) => (Written("vkiller_scc.kss") /\ ~Written("vkilscc.rom"))
    /\ RaisedAt(BeforeCompose \cup {"compose", "drum_fix", "compile", "save_kss"}) =>
          files = {}

\* the assembler has failed: the container is there, the image is not
C8_Witness ==
    /\ pc = "exit" /\ exit_status = 1
    /\ Written("vkiller_scc.kss") /\ ~Written("vkilscc.rom")

=============================================================================
